---- MODULE Spec2Model ----
(***************************************************************************)
(* Nested cross-validated model selection on precomputed kernel matrices:  *)
(* the two training scripts of the repository, src/src/train.py (script    *)
(* "src") and the earlier src/train.py (script "root").                    *)
(*                                                                         *)
(* Conventions.                                                            *)
(*  - A numpy array is a function on 0..n-1; a matrix is an array of rows. *)
(*  - Kernel values are fixed-point numbers, four units to 1.0, so that    *)
(*    the normalised values of the matrices used here are exact.           *)
(*  - An accuracy is an exact fraction [num, den]; den = 0 is NaN.         *)
(*  - sklearn's classifier, splitter and random generator are not code of  *)
(*    the repository: the classifier is a deterministic function of the    *)
(*    arrays and parameters the scripts hand it, the shuffle of a splitter *)
(*    is a function gen of its seed that the model does not fix.           *)
(***************************************************************************)
EXTENDS Integers, Sequences, FiniteSets, TLC

(***************************************************************************)
(* Bounds of the model.  The scripts fix n_iterations = 10, n_folds = 10,  *)
(* five inner folds and C = 10^-3..10^3; the model runs the same loops     *)
(* with smaller counts.                                                    *)
(***************************************************************************)
NGraphs == 6
NIterations == 2
NOuterFolds == 3
NInnerFolds == 2
CExpRange == 1
MaxRot == 1
MaxRuntime == 2
NormSize == 2

\* random_state of the inner splitter and base of the outer one
InnerSeed == 42
BaseSeed == 42

(***************************************************************************)
(* Arrays and arithmetic                                                   *)
(***************************************************************************)
Range0(n) == 0..(n - 1)

Len0(a) == Cardinality(DOMAIN a)

RECURSIVE GCD(_, _)
GCD(a, b) == IF b = 0 THEN a ELSE GCD(b, a % b)

RECURSIVE SumOver(_, _)
SumOver(S, f) ==
    IF S = {} THEN 0
    ELSE LET x == CHOOSE z \in S : TRUE
         IN f[x] + SumOver(S \ {x}, f)

Pow10(e) == IF e = 0 THEN 1 ELSE IF e = 1 THEN 10 ELSE IF e = 2 THEN 100
            ELSE IF e = 3 THEN 1000 ELSE IF e = 4 THEN 10000
            ELSE IF e = 5 THEN 100000 ELSE 1000000

\* the elements of a set of integers, ascending, as an array
SortedArr(S) ==
    [p \in Range0(Cardinality(S)) |->
        CHOOSE x \in S : Cardinality({z \in S : z < x}) = p]

ArrSet(a) == {a[p] : p \in DOMAIN a}

\* a[idx] for an index array idx
Take(a, idx) == [p \in DOMAIN idx |-> a[idx[p]]]

NaN == [num |-> 0, den |-> 0]

IsNaN(a) == a.den = 0

Frac(n, d) ==
    IF d = 0 THEN NaN
    ELSE LET g == GCD(n, d) IN
         IF g = 0 THEN [num |-> 0, den |-> 1]
         ELSE [num |-> n \div g, den |-> d \div g]

FracAdd(a, b) ==
    IF IsNaN(a) \/ IsNaN(b) THEN NaN
    ELSE Frac(a.num * b.den + b.num * a.den, a.den * b.den)

\* a > b as Python compares floats: False as soon as one side is NaN
FracGT(a, b) ==
    IF IsNaN(a) \/ IsNaN(b) THEN FALSE
    ELSE a.num * b.den > b.num * a.den

RECURSIVE FracSum(_, _)
FracSum(lst, n) ==
    IF n = 0 THEN [num |-> 0, den |-> 1]
    ELSE FracAdd(FracSum(lst, n - 1), lst[n])

\* np.mean of a list of accuracies (a non-empty sequence)
Mean(lst) ==
    LET s == FracSum(lst, Len(lst)) IN
    IF IsNaN(s) THEN NaN ELSE Frac(s.num, s.den * Len(lst))

(***************************************************************************)
(* normalize                                                               *)
(***************************************************************************)
RECURSIVE ISqrtFrom(_, _)
ISqrtFrom(d, r) == IF (r + 1) * (r + 1) > d THEN r ELSE ISqrtFrom(d, r + 1)

\* 1 / sqrt(d) for a diagonal value d, doubled: d is in fixed point, 4 to 1.0
InvSqrt2(d) == 4 \div ISqrtFrom(d, 0)

\* divides by the diagonal entries instead of their square roots
normalizeNoSqrt(matrix) ==
    LET n == Len0(matrix)
        k == [i \in Range0(n) |->
                IF matrix[i][i] > 0 THEN 16 \div matrix[i][i] ELSE 0]
    IN [i \in Range0(n) |-> [j \in Range0(n) |->
            (matrix[i][j] * k[i] * k[j]) \div 16]]

\* scales every row and column by the largest diagonal entry of the matrix
normalizeByMax(matrix) ==
    LET n == Len0(matrix)
        m == CHOOSE d \in {matrix[i][i] : i \in Range0(n)} \cup {0} :
                \A i \in Range0(n) : matrix[i][i] <= d
        k == [i \in Range0(n) |->
                IF matrix[i][i] > 0 THEN InvSqrt2(m) ELSE 0]
    IN [i \in Range0(n) |-> [j \in Range0(n) |->
            (matrix[i][j] * k[i] * k[j]) \div 4]]

\* src/src/train.py: entries of a row or column whose diagonal is not above
\* epsilon get factor 0 (epsilon = 1e-20 lies below the fixed-point unit)
normalize(matrix) ==
    LET n == Len0(matrix)
        k == [i \in Range0(n) |->
                IF matrix[i][i] > 0 THEN InvSqrt2(matrix[i][i]) ELSE 0]
    IN [i \in Range0(n) |-> [j \in Range0(n) |->
            (matrix[i][j] * k[i] * k[j]) \div 4]]

\* not a finite number: NaN or +-Inf in a float array
NaNEntry == 0 - Pow10(6)

\* src/train.py: no guard; a zero diagonal gives 1/0 = inf and a negative
\* one sqrt(<0) = nan, and every product with them is not finite
legacy_normalize(matrix) ==
    LET n == Len0(matrix)
        bad == {i \in Range0(n) : matrix[i][i] <= 0 \/ matrix[i][i] = NaNEntry}
        k == [i \in Range0(n) |->
                IF i \in bad THEN 0 ELSE InvSqrt2(matrix[i][i])]
    IN [i \in Range0(n) |-> [j \in Range0(n) |->
            IF i \in bad \/ j \in bad \/ matrix[i][j] = NaNEntry THEN NaNEntry
            ELSE (matrix[i][j] * k[i] * k[j]) \div 4]]

(***************************************************************************)
(* StratifiedKFold(n_splits, shuffle=True, random_state=seed).split(X, y)  *)
(* Samples sorted by class are dealt to the folds in turn, which fixes how *)
(* many samples of each class a fold tests; the shuffle decides which.     *)
(* gen is the generator: the shuffle of seed s is a rotation by Rot(gen,s).*)
(***************************************************************************)
Rot(gen, seed) == gen.b + gen.a * (seed - BaseSeed)

SplitFails(n_splits, y) ==
    \/ n_splits > Len0(y)
    \/ \A c \in ArrSet(y) : Cardinality({i \in DOMAIN y : y[i] = c}) < n_splits

TestFolds(n_splits, seed, y, gen) ==
    LET cnt(c) == Cardinality({i \in DOMAIN y : y[i] = c})
        off(c) == Cardinality({i \in DOMAIN y : y[i] < c})
        rank(i) == Cardinality({h \in DOMAIN y : y[h] = y[i] /\ h < i})
        dealt(c, r) == (off(c) + r) % n_splits
        folds_for_class(c, p) ==
            CHOOSE f \in Range0(n_splits) :
                /\ Cardinality({r \in Range0(cnt(c)) : dealt(c, r) < f}) <= p
                /\ p < Cardinality({r \in Range0(cnt(c)) : dealt(c, r) <= f})
    IN [i \in DOMAIN y |->
            folds_for_class(y[i], (rank(i) + Rot(gen, seed)) % cnt(y[i]))]

\* every sample is a train sample of every fold
SplitKeepsAll(n_splits, seed, y, gen) ==
    LET tf == TestFolds(n_splits, seed, y, gen)
    IN [f \in 1..n_splits |->
            [train |-> SortedArr(DOMAIN y),
             test  |-> SortedArr({i \in DOMAIN y : tf[i] = f - 1})]]

\* the list of (train positions, test positions), one pair per fold
Split(n_splits, seed, y, gen) ==
    LET tf == TestFolds(n_splits, seed, y, gen)
    IN [f \in 1..n_splits |->
            [train |-> SortedArr({i \in DOMAIN y : tf[i] # f - 1}),
             test  |-> SortedArr({i \in DOMAIN y : tf[i] = f - 1})]]

(***************************************************************************)
(* The classifier, SVC(kernel='precomputed', C = 10^e): a kernel nearest   *)
(* centroid rule that needs a margin of 1/C to decide and otherwise        *)
(* predicts the majority class.  fit reads the train x train block Ktt and *)
(* the train labels ytr, predict a row of similarities to the train set.   *)
(***************************************************************************)
FitFails(Ktt, ytr) ==
    \/ Cardinality(ArrSet(ytr)) < 2
    \/ \E i \in DOMAIN Ktt : \E j \in DOMAIN Ktt[i] : Ktt[i][j] = NaNEntry

Decide(Ktt, ytr, row, e) ==
    LET cls == ArrSet(ytr)
        mem(c) == {j \in DOMAIN ytr : ytr[j] = c}
        n(c) == Cardinality(mem(c))
        A(c) == SumOver(mem(c), row)
        B(c) == SumOver(mem(c), [j \in DOMAIN ytr |-> SumOver(mem(c), Ktt[j])])
        G(c) == 2 * n(c) * A(c) - B(c)
        gap(c, d) == G(c) * n(d) * n(d) - G(d) * n(c) * n(c)
        best == CHOOSE c \in cls :
                    \A d \in cls \ {c} : gap(c, d) > 0 \/ (gap(c, d) = 0 /\ c < d)
        major == CHOOSE c \in cls :
                    \A d \in cls \ {c} : n(c) > n(d) \/ (n(c) = n(d) /\ c < d)
        sure == \A d \in cls \ {best} :
                    gap(best, d) * Pow10(e + CExpRange)
                        >= 4 * Pow10(CExpRange) * n(best) * n(best) * n(d) * n(d)
    IN IF sure THEN best ELSE major

\* _fit_and_score(clone(clf), K, y, accuracy, train, test, parameters):
\* the accuracy on the test positions, NaN when the fit fails (error_score)
FitAndScore(K, y, train, test, e) ==
    LET Ktt == [p \in DOMAIN train |-> Take(K[train[p]], train)]
        ytr == Take(y, train)
        hit == {p \in DOMAIN test :
                    Decide(Ktt, ytr, Take(K[test[p]], train), e) = y[test[p]]}
    IN IF FitFails(Ktt, ytr)
          \/ \E p \in DOMAIN test : \E q \in DOMAIN train :
                K[test[p]][train[q]] = NaNEntry
       THEN NaN
       ELSE Frac(Cardinality(hit), Len0(test))

(***************************************************************************)
(* Collections, parameters, classifiers                                    *)
(* A collection (one .npz file) is the sequence of its items [key, shape,  *)
(* arr] in file order; a dict is a function on its keys; an optional value *)
(* is <<>> (None) or <<v>>.                                                *)
(***************************************************************************)
EmptyDict == [k \in {} |-> 0]

Lookup(kernel_matrices, key) ==
    kernel_matrices[CHOOSE p \in 1..Len(kernel_matrices) :
                        kernel_matrices[p].key = key].arr

None == [tag |-> "None"]

\* SVC(...): C defaults to 1.0 = 10^0; obj tells the object built by the
\* caller from the objects clone() makes
SVC == [tag |-> "SVC", C |-> 0, fitted |-> FALSE, obj |-> "template"]

\* clone(clf).set_params(**params)
CloneSetParams(clf, params) ==
    [tag |-> clf.tag, C |-> params.C, fitted |-> FALSE, obj |-> "clone"]

\* ParameterGrid({'C': 10. ** arange(-3, 4), 'normalize': [False, True]}):
\* keys sorted, the last one varying fastest
ParameterGrid ==
    [k \in 1..(2 * (2 * CExpRange + 1)) |->
        [C |-> ((k - 1) \div 2) - CExpRange, normalize |-> (k - 1) % 2 = 1]]

\* forgets the index array and takes the leading block
RestrictLeading(K, train_indices) ==
    [p \in DOMAIN train_indices |-> [q \in DOMAIN train_indices |-> K[p][q]]]

\* K[train_indices, :][:, train_indices]
Restrict(K, train_indices) ==
    [p \in DOMAIN train_indices |-> [q \in DOMAIN train_indices |->
        K[train_indices[p]][train_indices[q]]]]

(***************************************************************************)
(* grid_search_cv of src/src/train.py, one candidate at a time             *)
(***************************************************************************)
\* a best accuracy that an accuracy of 0 exceeds
InitBestBelowZero ==
    [best_clf |-> None,
     best_accuracy |-> [num |-> 0 - 1, den |-> 1],
     best_parameters |-> EmptyDict]

InitBest == [best_clf |-> None,
             best_accuracy |-> [num |-> 0, den |-> 1],
             best_parameters |-> EmptyDict]

\* lines 113-117: the matrix handed to the fits of one candidate
CandidateK(parameters, Kfull, train_indices) ==
    LET K0 == Restrict(Kfull, train_indices)
    IN IF parameters.normalize THEN normalize(K0) ELSE K0

\* lines 113-161: the mean accuracy of one (parameters, matrix) candidate
CandidateMean(parameters, Kfull, train_indices, n_folds, y, g) ==
    LET K == CandidateK(parameters, Kfull, train_indices)
        cv == Split(n_folds, InnerSeed, y, g)
        accuracy_list ==
            [f \in 1..n_folds |->
                FitAndScore(K, y, cv[f].train, cv[f].test, parameters.C)]
    IN Mean(accuracy_list)

\* >= in the place of >
ImprovesOrTies(accuracy_mean, best_accuracy) ==
    ~ FracGT(best_accuracy, accuracy_mean)

\* line 166: the comparison with the best so far
Improves(accuracy_mean, best_accuracy) == FracGT(accuracy_mean, best_accuracy)

\* lines 166-178
UpdateBest(best, clf, parameters, K_param, accuracy_mean) ==
    IF Improves(accuracy_mean, best.best_accuracy)
    THEN [best_clf |-> CloneSetParams(clf, [C |-> parameters.C]),
          best_accuracy |-> accuracy_mean,
          best_parameters |-> [C |-> parameters.C,
                               normalize |-> parameters.normalize,
                               K |-> K_param]]
    ELSE best

\* the candidates in visiting order: parameters outermost, the items of the
\* collection innermost (the item 'y' is visited and skipped)
NCandidates(param_grid, kernel_matrices) == Len(param_grid) * Len(kernel_matrices)

CandParams(param_grid, kernel_matrices, c) ==
    param_grid[((c - 1) \div Len(kernel_matrices)) + 1]

CandItem(param_grid, kernel_matrices, c) ==
    kernel_matrices[((c - 1) % Len(kernel_matrices)) + 1]

\* the whole label vector: kernel_matrices['y']
TrainLabelsAll(kernel_matrices, train_indices) ==
    Lookup(kernel_matrices, "y")

\* line 90
TrainLabels(kernel_matrices, train_indices) ==
    Take(Lookup(kernel_matrices, "y"), train_indices)

\* lines 102-178 for candidate c: the new best_clf, best_accuracy, best_parameters
SearchBody(best, clf, train_indices, n_folds, param_grid, kernel_matrices, g, c) ==
    LET item == CandItem(param_grid, kernel_matrices, c)
        parameters == CandParams(param_grid, kernel_matrices, c)
    IN IF item.key = "y" THEN best
       ELSE UpdateBest(best, clf, parameters, item.key,
                CandidateMean(parameters, item.arr, train_indices, n_folds,
                              TrainLabels(kernel_matrices, train_indices), g))

\* lines 180-187: the return values
ReturnedMatrix(best_parameters, kernel_matrices) ==
    LET best_K == Lookup(kernel_matrices, best_parameters.K)
    IN IF best_parameters.normalize THEN normalize(best_K) ELSE best_K

SearchReturnValue(best, kernel_matrices) ==
    [clf |-> best.best_clf,
     K |-> ReturnedMatrix(best.best_parameters, kernel_matrices),
     parameters |-> best.best_parameters]

(***************************************************************************)
(* grid_search_cv of src/train.py: inner folds outermost, then the items,  *)
(* then the parameters; K is rebound inside the parameter loop, and the    *)
(* value compared is the accuracy of one fold                              *)
(***************************************************************************)
LegacyNSteps(n_folds, param_grid, kernel_matrices) ==
    n_folds * Len(kernel_matrices) * Len(param_grid)

LegacyFold(param_grid, kernel_matrices, c) ==
    ((c - 1) \div (Len(kernel_matrices) * Len(param_grid))) + 1

LegacyItem(param_grid, kernel_matrices, c) ==
    kernel_matrices[(((c - 1) \div Len(param_grid)) % Len(kernel_matrices)) + 1]

LegacyParamIndex(param_grid, c) == ((c - 1) % Len(param_grid)) + 1

\* lines 93-100: K as the fit of step c sees it; Kprev is K after step c - 1
LegacyK(Kprev, train_indices, param_grid, kernel_matrices, c) ==
    LET item == LegacyItem(param_grid, kernel_matrices, c)
        Kin == IF LegacyParamIndex(param_grid, c) = 1
               THEN Restrict(item.arr, train_indices) ELSE Kprev
    IN IF param_grid[LegacyParamIndex(param_grid, c)].normalize
       THEN legacy_normalize(Kin) ELSE Kin

\* lines 109-132
LegacyBody(best, K, clf, train_indices, n_folds, param_grid, kernel_matrices, g, c) ==
    LET item == LegacyItem(param_grid, kernel_matrices, c)
        parameters == param_grid[LegacyParamIndex(param_grid, c)]
        y == TrainLabels(kernel_matrices, train_indices)
        fold == Split(n_folds, InnerSeed, y, g)[LegacyFold(param_grid, kernel_matrices, c)]
        accuracy == FitAndScore(K, y, fold.train, fold.test, parameters.C)
    IN IF FracGT(accuracy, best.best_accuracy)
       THEN [best_clf |-> CloneSetParams(clf, [C |-> parameters.C]),
             best_accuracy |-> accuracy,
             best_parameters |-> [C |-> parameters.C,
                                  normalize |-> parameters.normalize,
                                  K |-> item.key]]
       ELSE best

\* line 134: the template clf and the matrix as loaded
LegacyReturnValue(best, clf, kernel_matrices) ==
    [clf |-> clf,
     K |-> Lookup(kernel_matrices, best.best_parameters.K),
     parameters |-> None]

(***************************************************************************)
(* Input data: label vectors and kernel matrices over n graphs             *)
(***************************************************************************)
Vec(n, kind) ==
    [i \in Range0(n) |->
        IF kind = "alt" THEN i % 2
        ELSE IF kind = "inv" THEN (i + 1) % 2
        ELSE IF kind = "tri" THEN (IF i = n - 1 THEN 2 ELSE i % 2)
        ELSE IF kind = "mid" THEN (IF i = n - 1 THEN 1 ELSE 2 * (i % 2))
        ELSE IF kind = "skew" THEN (IF i = n - 1 THEN 2 ELSE IF i = n - 2 THEN 1 ELSE 0)
        ELSE 0]

\* weight 2 for every third graph, 1 otherwise: diagonals 4.0 and 1.0
Wt(i) == IF i % 3 = 0 THEN 2 ELSE 1

Mat(r, c, kind, y) ==
    [i \in Range0(r) |-> [j \in Range0(c) |->
        IF kind = "same" THEN (IF y[i % Len0(y)] = y[j % Len0(y)] THEN 4 ELSE 0)
        ELSE IF kind = "anti" THEN (IF y[i % Len0(y)] # y[j % Len0(y)] THEN 4 ELSE 0)
        ELSE IF kind = "ident" THEN (IF i = j THEN 4 ELSE 0)
        ELSE IF kind = "wide"
             THEN Wt(i) * Wt(j) * (IF y[i % Len0(y)] = y[j % Len0(y)] THEN 4 ELSE 2)
        ELSE IF kind = "gap"
             THEN (IF i = j /\ i % 3 = 1 THEN 0
                   ELSE Wt(i) * Wt(j) * (IF y[i % Len0(y)] = y[j % Len0(y)] THEN 4 ELSE 2))
        ELSE 0]]

MatItem(key, r, c, kind, y) ==
    [key |-> key, shape |-> <<r, c>>, arr |-> Mat(r, c, kind, y)]

VecItem(n, kind) == [key |-> "y", shape |-> <<n>>, arr |-> Vec(n, kind)]

\* one input file: its directory, its basename without extension, its arrays
WL(dir) ==
    [dir |-> dir, name |-> "wl",
     npz |-> << MatItem("1", NGraphs, NGraphs, "wide", Vec(NGraphs, "alt")),
                MatItem("2", NGraphs, NGraphs, "same", Vec(NGraphs, "alt")),
                VecItem(NGraphs, "alt") >>]

SP ==
    [dir |-> "a", name |-> "sp",
     npz |-> << MatItem("K", NGraphs, NGraphs, "ident", Vec(NGraphs, "alt")),
                VecItem(NGraphs, "alt") >>]

\* the labels of another data set, of the same length
GL ==
    [dir |-> "a", name |-> "gl",
     npz |-> << MatItem("K", NGraphs, NGraphs, "same", Vec(NGraphs, "inv")),
                VecItem(NGraphs, "inv") >>]

NonSquare ==
    [dir |-> "a", name |-> "ns",
     npz |-> << MatItem("K", NGraphs, NGraphs - 1, "same", Vec(NGraphs, "alt")),
                VecItem(NGraphs, "alt") >>]

Small ==
    [dir |-> "a", name |-> "sm",
     npz |-> << MatItem("K", NGraphs - 1, NGraphs - 1, "same", Vec(NGraphs - 1, "alt")),
                VecItem(NGraphs - 1, "alt") >>]

ShortY ==
    [dir |-> "a", name |-> "sy",
     npz |-> << MatItem("K", NGraphs, NGraphs, "same", Vec(NGraphs, "alt")),
                VecItem(NGraphs - 1, "alt") >>]

\* one collection with a 5x5 and a 6x6 matrix
Mixed ==
    [dir |-> "a", name |-> "mx",
     npz |-> << MatItem("1", NGraphs - 1, NGraphs - 1, "same", Vec(NGraphs, "alt")),
                MatItem("2", NGraphs, NGraphs, "same", Vec(NGraphs, "alt")),
                VecItem(NGraphs, "alt") >>]

\* a data set with three classes, the third with one graph
TC ==
    [dir |-> "a", name |-> "tc",
     npz |-> << MatItem("K", NGraphs, NGraphs, "same", Vec(NGraphs, "tri")),
                VecItem(NGraphs, "tri") >>]

\* a data set with three classes, most graphs in the first, and a matrix
\* with zeros on its diagonal
SK ==
    [dir |-> "a", name |-> "sk",
     npz |-> << MatItem("K", NGraphs, NGraphs, "same", Vec(NGraphs, "skew")),
                MatItem("Z", NGraphs, NGraphs, "gap", Vec(NGraphs, "skew")),
                VecItem(NGraphs, "skew") >>]

\* one matrix, with diagonal entries 4.0 and 1.0
WD ==
    [dir |-> "a", name |-> "wd",
     npz |-> << MatItem("1", NGraphs, NGraphs, "wide", Vec(NGraphs, "alt")),
                VecItem(NGraphs, "alt") >>]

\* a data set with three classes, the second with one graph
MC ==
    [dir |-> "a", name |-> "mc",
     npz |-> << MatItem("K", NGraphs, NGraphs, "same", Vec(NGraphs, "mid")),
                VecItem(NGraphs, "mid") >>]

\* a command line: the files, --with-indices, --name, --max-iterations
Invocation(MATRIX, with_indices) ==
    [MATRIX |-> MATRIX, with_indices |-> with_indices,
     name |-> "MUTAG", max_iterations |-> 100000]

Invocations ==
    { Invocation(<< WL("a") >>, TRUE),
      Invocation(<< WL("a"), SP >>, FALSE),
      Invocation(<< SP, WL("a") >>, TRUE),
      Invocation(<< WL("a"), WL("b") >>, FALSE),
      Invocation(<< WL("a"), GL >>, FALSE),
      Invocation(<< WL("a"), NonSquare >>, FALSE),
      Invocation(<< WL("a"), Small >>, FALSE),
      Invocation(<< ShortY >>, FALSE),
      Invocation(<< SP, ShortY >>, FALSE),
      Invocation(<< Mixed >>, FALSE),
      Invocation(<< TC >>, FALSE),
      Invocation(<< SK >>, FALSE),
      Invocation(<< WD >>, FALSE),
      Invocation(<< MC >>, FALSE) }

Generators == {[a |-> a, b |-> 0] : a \in 0..MaxRot}

(***************************************************************************)
(* Scores of a fold, lines 240-288                                         *)
(***************************************************************************)
\* accuracy_score
Accuracy(y_test, y_pred) ==
    Frac(Cardinality({p \in DOMAIN y_test : y_test[p] = y_pred[p]}), Len0(y_test))

\* precision_score and recall_score with average='macro': the mean over the
\* labels in y_test or y_pred of tp / predicted and of tp / actual, a ratio
\* with denominator 0 counting as 0
MacroOver(y_test, y_pred, counted) ==
    LET labels == SortedArr(ArrSet(y_test) \cup ArrSet(y_pred))
        tp(c) == Cardinality({p \in DOMAIN y_test : y_test[p] = c /\ y_pred[p] = c})
        n(c) == Cardinality({p \in DOMAIN counted : counted[p] = c})
    IN Mean([k \in 1..Len0(labels) |->
                IF n(labels[k - 1]) = 0 THEN [num |-> 0, den |-> 1]
                ELSE Frac(tp(labels[k - 1]), n(labels[k - 1]))])

Precision(y_test, y_pred) == MacroOver(y_test, y_pred, y_pred)

Recall(y_test, y_pred) == MacroOver(y_test, y_pred, y_test)

\* roc_auc_score that raises for no y_true
AurocNeverRaises(y_true) == FALSE

\* roc_auc_score raises ValueError when y_true holds one class only
AurocRaises(y_true) == Cardinality(ArrSet(y_true)) # 2

\* roc_auc_score(y_true, score) for y_true in {0, 1}
Auroc(y_true, score) ==
    LET pos == {p \in DOMAIN y_true : y_true[p] = 1}
        neg == DOMAIN y_true \ pos
        won == {pr \in pos \X neg : score[pr[1]] > score[pr[2]]}
        tied == {pr \in pos \X neg : score[pr[1]] = score[pr[2]]}
    IN Frac(2 * Cardinality(won) + Cardinality(tied),
            2 * Cardinality(pos) * Cardinality(neg))

\* average_precision_score(y_true, score): the precision at each threshold
\* weighted by the gain in recall
Auprc(y_true, score) ==
    LET pos == {p \in DOMAIN y_true : y_true[p] = 1}
        ts == SortedArr(ArrSet(score))
        at(t) == Cardinality({p \in pos : score[p] = t})
        tp(t) == Cardinality({p \in pos : score[p] >= t})
        all(t) == Cardinality({p \in DOMAIN y_true : score[p] >= t})
        terms == [k \in 1..Len0(ts) |->
                    Frac(at(ts[k - 1]) * tp(ts[k - 1]),
                         Cardinality(pos) * all(ts[k - 1]))]
    IN FracSum(terms, Len0(ts))

\* label_binarize(y_test, classes)[:, i]
Binarized(y_test, classes, i) ==
    [p \in DOMAIN y_test |-> IF y_test[p] = classes[i] THEN 1 ELSE 0]

\* predict_proba of SVC(probability=True): the probabilities come from an
\* internal cross-validation whose shuffle draws on numpy's global generator
\* (random_state is not given); 4 is probability 1
Proba(y_pred, fitted_classes, e) ==
    [p \in DOMAIN y_pred |-> [i \in DOMAIN fitted_classes |->
        IF fitted_classes[i] = y_pred[p] THEN 3 - e ELSE 1 + e]]

Column(y_score, i) == [p \in DOMAIN y_score |-> y_score[p][i]]

\* lines 249-288
ScoreBased(y_test, y_score, classes) ==
    LET n_classes == Len0(classes)
        n_scores == IF Len0(y_score) = 0 THEN 0
                    ELSE IF n_classes < Len0(y_score[0]) THEN n_classes
                    ELSE Len0(y_score[0])
        kept == SortedArr({i \in Range0(n_scores) :
                            ~ AurocRaises(Binarized(y_test, classes, i))})
        MeanOrNaN(lst) == IF Len(lst) = 0 THEN NaN ELSE Mean(lst)
    IN IF n_classes = 2
       THEN [auroc |-> Auroc(y_test, Column(y_score, 1)),
             auprc |-> Auprc(y_test, Column(y_score, 1))]
       ELSE [auroc |-> MeanOrNaN([k \in 1..Len0(kept) |->
                    Auroc(Binarized(y_test, classes, kept[k - 1]),
                          Column(y_score, kept[k - 1]))]),
             auprc |-> MeanOrNaN([k \in 1..Len0(kept) |->
                    Auprc(Binarized(y_test, classes, kept[k - 1]),
                          Column(y_score, kept[k - 1]))])]

\* fits on the whole matrix and on every label
PredictFitOnAll(clf, K, yv, train_indices, test_indices) ==
    LET all == SortedArr(DOMAIN yv)
    IN [p \in DOMAIN test_indices |->
            Decide(K, yv, Take(K[test_indices[p]], all), clf.C)]

\* lines 228-238: clf.fit on the train block, clf.predict on the test rows
Predict(clf, K, yv, train_indices, test_indices) ==
    LET K_train == Restrict(K, train_indices)
        ytr == Take(yv, train_indices)
    IN [p \in DOMAIN test_indices |->
            Decide(K_train, ytr, Take(K[test_indices[p]], train_indices), clf.C)]

\* lines 228-301: the results of train_and_test after the grid search
Results(ret, yv, classes, train_indices, test_indices, e) ==
    LET y_test == Take(yv, test_indices)
        y_pred == Predict(ret.clf, ret.K, yv, train_indices, test_indices)
        y_score == Proba(y_pred, SortedArr(ArrSet(Take(yv, train_indices))), e)
        sb == ScoreBased(y_test, y_score, classes)
    IN [best_model |-> ret.parameters,
        accuracy |-> Accuracy(y_test, y_pred),
        precision |-> Precision(y_test, y_pred),
        recall |-> Recall(y_test, y_pred),
        auroc |-> sb.auroc,
        auprc |-> sb.auprc,
        y_pred |-> y_pred,
        y_score |-> y_score]

\* the line at which train_and_test raises, 0 if it returns
ResultsRaise(ret, yv, classes, train_indices, test_indices) ==
    IF FitFails(Restrict(ret.K, train_indices), Take(yv, train_indices)) THEN 233
    ELSE IF Len0(classes) = 2 /\ AurocRaises(Take(yv, test_indices)) THEN 250
    ELSE 0

(***************************************************************************)
(* The report                                                              *)
(***************************************************************************)
Put(d, k, v) == (k :> v) @@ d

\* lines 463-482: the fold's entry with indices and labels written
FoldHeader(report, iteration, fold_index, train_indices, test_indices, yv, with_indices) ==
    LET iters == report["iterations"]
        per_fold == IF iteration \in DOMAIN iters THEN iters[iteration].folds
                    ELSE EmptyDict
        e0 == IF fold_index \in DOMAIN per_fold THEN per_fold[fold_index] ELSE EmptyDict
        e1 == IF with_indices
              THEN Put(Put(e0, "train_indices", train_indices),
                       "test_indices", test_indices)
              ELSE e0
        e2 == Put(e1, "y_test", Take(yv, test_indices))
    IN IF "kernels" \in DOMAIN e2 THEN e2 ELSE Put(e2, "kernels", EmptyDict)

\* the report with a fold's entry replaced
WithFold(report, iteration, fold_index, entry) ==
    LET iters == report["iterations"]
        per_fold == IF iteration \in DOMAIN iters THEN iters[iteration].folds
                    ELSE EmptyDict
    IN Put(report, "iterations",
           Put(iters, iteration, [folds |-> Put(per_fold, fold_index, entry)]))

\* random_state of the outer splitter for kernel k: the same for every kernel
OuterSeedPerKernel(k, iteration) == BaseSeed + iteration + k

\* line 437
OuterSeed(k, iteration) == BaseSeed + iteration

\* src/train.py, lines 254-258: the splitter is built before the loop over
\* the iterations, with random_state=42; an integer random_state makes every
\* call of split start from that seed
LegacyOuterSeed(k, iteration) == BaseSeed

(***************************************************************************)
(* State                                                                   *)
(***************************************************************************)
VARIABLES
    script,        \* "src": src/src/train.py, "root": src/train.py
    args,          \* the command line: MATRIX (the files), with_indices
    gen,           \* sklearn's generator, as a function of the seed
    entropy,       \* the state of numpy's global generator, never seeded
    pc,            \* where the script is
    matrices,      \* name -> collection, in insertion order
    chk,           \* the check loop: file i, item j
    n_graphs,      \* None or the number of graphs
    y,             \* None or the label vector
    classes,       \* sorted(set(y))
    cur,           \* kernel k, iteration, fold_index, train and test indices
    gs,            \* the running call of grid_search_cv
    twin,          \* the same call on a second collection (selector checks)
    all_results,   \* the report
    calls,         \* the calls of train_and_test so far
    err,           \* the exception that ended the run
    run,           \* 1, or 2 for a repeated run
    first_report   \* the report of run 1

vars == << script, args, gen, entropy, pc, matrices, chk, n_graphs, y, classes,
           cur, gs, twin, all_results, calls, err, run, first_report >>

\* one entry per file, whatever its name
LoadEveryFile(MATRIX) ==
    [k \in 1..Len(MATRIX) |-> [name |-> MATRIX[k].name, npz |-> MATRIX[k].npz]]

\* {basename: np.load(filename) for filename in args.MATRIX}: a name keeps
\* its first position and its last value
Load(MATRIX) ==
    LET firsts == {i \in 1..Len(MATRIX) :
                        \A h \in 1..(i - 1) : MATRIX[h].name # MATRIX[i].name}
        order == SortedArr(firsts)
    IN [k \in 1..Cardinality(firsts) |->
            LET nm == MATRIX[order[k - 1]].name
                last == CHOOSE i \in 1..Len(MATRIX) :
                            /\ MATRIX[i].name = nm
                            /\ \A h \in (i + 1)..Len(MATRIX) : MATRIX[h].name # nm
            IN [name |-> nm, npz |-> MATRIX[last].npz]]

NoError == [type |-> "", line |-> 0]

IdleCur == [k |-> 0, iteration |-> 0, fold_index |-> 0,
            train_indices |-> << >>, test_indices |-> << >>]

Start ==
    /\ pc = "check"
    /\ matrices = Load(args.MATRIX)
    /\ chk = [i |-> 1, j |-> 1]
    /\ n_graphs = << >>
    /\ y = << >>
    /\ classes = << >>
    /\ cur = IdleCur
    /\ gs = None
    /\ twin = None
    /\ all_results = EmptyDict
    /\ calls = {}
    /\ err = NoError

Init ==
    /\ script \in {"src", "root"}
    /\ args \in Invocations
    /\ gen \in Generators
    /\ entropy \in 0..1
    /\ run = 1
    /\ first_report = << >>
    /\ Start

\* the exception e raised at a line of the script ends the run
Fail(e, line) ==
    /\ pc' = "failed"
    /\ err' = [type |-> e, line |-> line]

(***************************************************************************)
(* The input check, lines 380-401 (src/train.py: 219-238), one array a step*)
(***************************************************************************)
\* only the test that a kernel matrix is square
CheckFailsSquareOnly(item) ==
    IF item.key # "y" /\ item.shape[1] # item.shape[2] THEN 387 ELSE 0

\* the line of the assertion that fails for an array, 0 if none does
\* (src/train.py has the same assertions at lines 226, 231 and 238)
CheckFails(item) ==
    IF item.key # "y" /\ item.shape[1] # item.shape[2] THEN 387
    ELSE IF item.key = "y" /\ y # << >> /\ item.shape # << Len0(y[1]) >> THEN 392
    ELSE IF n_graphs # << >> /\ n_graphs[1] # item.shape[1] THEN 401
    ELSE 0

CheckArray ==
    /\ pc = "check"
    /\ chk.i <= Len(matrices)
    /\ LET item == matrices[chk.i].npz[chk.j]
           last == chk.j = Len(matrices[chk.i].npz)
       IN IF CheckFails(item) # 0
          THEN /\ Fail("AssertionError", CheckFails(item))
               /\ UNCHANGED << chk, n_graphs, y >>
          ELSE /\ y' = IF item.key = "y" /\ y = << >> THEN << item.arr >> ELSE y
               /\ n_graphs' = IF n_graphs = << >> THEN << item.shape[1] >> ELSE n_graphs
               /\ chk' = IF last THEN [i |-> chk.i + 1, j |-> 1]
                         ELSE [i |-> chk.i, j |-> chk.j + 1]
               /\ UNCHANGED << pc, err >>
    /\ UNCHANGED << script, args, gen, entropy, matrices, classes, cur, gs, twin,
                    all_results, calls, run, first_report >>

(***************************************************************************)
(* A call of grid_search_cv                                                *)
(***************************************************************************)
Frame(clf, train_indices, n_folds, param_grid, kernel_matrices) ==
    [tag |-> "grid_search_cv",
     clf |-> clf,
     train_indices |-> train_indices,
     n_folds |-> n_folds,
     param_grid |-> param_grid,
     kernel_matrices |-> kernel_matrices,
     c |-> 1,              \* the next candidate
     best |-> InitBest,    \* best_clf, best_accuracy, best_parameters
     K |-> << >>,          \* the local K, as the last pass of the loop left it
     ret |-> None]

\* normalizes in place: the matrix of the collection is overwritten
StepFrameInPlace(f, g) ==
    LET p == ((f.c - 1) % Len(f.kernel_matrices)) + 1
        item == CandItem(f.param_grid, f.kernel_matrices, f.c)
        parameters == CandParams(f.param_grid, f.kernel_matrices, f.c)
    IN [f EXCEPT !.best = SearchBody(f.best, f.clf, f.train_indices, f.n_folds,
                                     f.param_grid, f.kernel_matrices, g, f.c),
                 !.c = f.c + 1,
                 !.K = IF item.key = "y" THEN item.arr
                       ELSE CandidateK(parameters, item.arr, f.train_indices),
                 !.kernel_matrices[p].arr =
                    IF item.key # "y" /\ parameters.normalize
                    THEN normalize(item.arr) ELSE item.arr]

\* one pass of the loop body of src/src/train.py, lines 100-178
StepFrame(f, g) ==
    LET item == CandItem(f.param_grid, f.kernel_matrices, f.c)
        parameters == CandParams(f.param_grid, f.kernel_matrices, f.c)
    IN [f EXCEPT !.best = SearchBody(f.best, f.clf, f.train_indices, f.n_folds,
                                     f.param_grid, f.kernel_matrices, g, f.c),
                 !.c = f.c + 1,
                 !.K = IF item.key = "y" THEN item.arr
                       ELSE CandidateK(parameters, item.arr, f.train_indices)]

\* cv.split raises ValueError
StepRaises(f) ==
    /\ CandItem(f.param_grid, f.kernel_matrices, f.c).key # "y"
    /\ SplitFails(f.n_folds, TrainLabels(f.kernel_matrices, f.train_indices))

SearchStep ==
    /\ pc = "search"
    /\ script = "src"
    /\ gs.c <= NCandidates(gs.param_grid, gs.kernel_matrices)
    /\ IF StepRaises(gs)
       THEN /\ Fail("ValueError", 140)
            /\ UNCHANGED << gs, twin >>
       ELSE /\ gs' = StepFrame(gs, gen)
            /\ twin' = IF twin = None THEN None ELSE StepFrame(twin, gen)
            /\ UNCHANGED << pc, err >>
    /\ UNCHANGED << script, args, gen, entropy, matrices, chk, n_graphs, y,
                    classes, cur, all_results, calls, run, first_report >>

\* lines 180-187; best_parameters['K'] of the empty dict raises KeyError
SearchReturn ==
    /\ pc = "search"
    /\ script = "src"
    /\ gs.c > NCandidates(gs.param_grid, gs.kernel_matrices)
    /\ IF gs.best.best_parameters = EmptyDict
       THEN /\ Fail("KeyError", 183)
            /\ UNCHANGED << gs, twin >>
       ELSE /\ gs' = [gs EXCEPT !.ret = SearchReturnValue(gs.best, gs.kernel_matrices)]
            /\ twin' = IF twin = None \/ twin.best.best_parameters = EmptyDict
                       THEN twin
                       ELSE [twin EXCEPT !.ret =
                                SearchReturnValue(twin.best, twin.kernel_matrices)]
            /\ pc' = IF cur.k = 0 THEN "returned" ELSE "refit"
            /\ UNCHANGED err
    /\ UNCHANGED << script, args, gen, entropy, matrices, chk, n_graphs, y,
                    classes, cur, all_results, calls, run, first_report >>

\* one pass of the innermost loop body of src/train.py, lines 81-132
LegacyStepFrame(f, g) ==
    IF LegacyItem(f.param_grid, f.kernel_matrices, f.c).key = "y"
    THEN [f EXCEPT !.c = f.c + 1]
    ELSE LET K == LegacyK(f.K, f.train_indices, f.param_grid, f.kernel_matrices, f.c)
         IN [f EXCEPT !.K = K,
                      !.best = LegacyBody(f.best, K, f.clf, f.train_indices, f.n_folds,
                                          f.param_grid, f.kernel_matrices, g, f.c),
                      !.c = f.c + 1]

LegacySearchStep ==
    /\ pc = "search"
    /\ script = "root"
    /\ gs.c <= LegacyNSteps(gs.n_folds, gs.param_grid, gs.kernel_matrices)
    /\ IF SplitFails(gs.n_folds, TrainLabels(gs.kernel_matrices, gs.train_indices))
       THEN /\ Fail("ValueError", 81)
            /\ UNCHANGED << gs, twin >>
       ELSE /\ gs' = LegacyStepFrame(gs, gen)
            /\ twin' = IF twin = None THEN None ELSE LegacyStepFrame(twin, gen)
            /\ UNCHANGED << pc, err >>
    /\ UNCHANGED << script, args, gen, entropy, matrices, chk, n_graphs, y,
                    classes, cur, all_results, calls, run, first_report >>

\* line 134
LegacySearchReturn ==
    /\ pc = "search"
    /\ script = "root"
    /\ gs.c > LegacyNSteps(gs.n_folds, gs.param_grid, gs.kernel_matrices)
    /\ IF gs.best.best_parameters = EmptyDict
       THEN /\ Fail("KeyError", 134)
            /\ UNCHANGED << gs, twin >>
       ELSE /\ gs' = [gs EXCEPT !.ret =
                        LegacyReturnValue(gs.best, gs.clf, gs.kernel_matrices)]
            /\ twin' = IF twin = None \/ twin.best.best_parameters = EmptyDict
                       THEN twin
                       ELSE [twin EXCEPT !.ret =
                                LegacyReturnValue(twin.best, twin.clf, twin.kernel_matrices)]
            /\ pc' = IF cur.k = 0 THEN "returned" ELSE "refit"
            /\ UNCHANGED err
    /\ UNCHANGED << script, args, gen, entropy, matrices, chk, n_graphs, y,
                    classes, cur, all_results, calls, run, first_report >>

(***************************************************************************)
(* The loops of src/src/train.py                                           *)
(***************************************************************************)
\* lines 403-420
Prepare ==
    /\ pc = "check"
    /\ script = "src"
    /\ chk.i > Len(matrices)
    /\ IF y = << >>
       THEN /\ Fail("TypeError", 405)
            /\ UNCHANGED << classes, all_results, cur >>
       ELSE /\ classes' = SortedArr(ArrSet(y[1]))
            /\ all_results' = Put(Put(EmptyDict, "name", args.name),
                                  "iterations", EmptyDict)
            /\ cur' = [IdleCur EXCEPT !.k = 1]
            /\ pc' = "loop"
            /\ UNCHANGED err
    /\ UNCHANGED << script, args, gen, entropy, matrices, chk, n_graphs, y,
                    gs, twin, calls, run, first_report >>

\* lines 434-458, 210-226, 90-94: the next fold of the current kernel and
\* iteration, up to the first candidate of the grid search
BeginFold ==
    /\ pc = "loop"
    /\ script = "src"
    /\ IF SplitFails(NOuterFolds, y[1])
       THEN /\ Fail("ValueError", 441)
            /\ UNCHANGED << cur, gs, calls >>
       ELSE LET seed == OuterSeed(cur.k, cur.iteration)
                cv == Split(NOuterFolds, seed, y[1], gen)
                fold == cv[cur.fold_index + 1]
            IN /\ cur' = [cur EXCEPT !.train_indices = fold.train,
                                     !.test_indices = fold.test]
               /\ calls' = calls \cup
                    {[name |-> matrices[cur.k].name, iteration |-> cur.iteration,
                      fold_index |-> cur.fold_index, seed |-> seed,
                      train_indices |-> fold.train, test_indices |-> fold.test]}
               /\ gs' = Frame(SVC, fold.train, NInnerFolds, ParameterGrid,
                              matrices[cur.k].npz)
               /\ pc' = "search"
               /\ UNCHANGED err
    /\ UNCHANGED << script, args, gen, entropy, matrices, chk, n_graphs, y,
                    classes, twin, all_results, run, first_report >>

\* the loop variables after the current fold
Advance(c) ==
    IF c.fold_index + 1 < NOuterFolds
    THEN [c EXCEPT !.fold_index = c.fold_index + 1]
    ELSE IF c.iteration + 1 < NIterations
    THEN [c EXCEPT !.iteration = c.iteration + 1, !.fold_index = 0]
    ELSE [c EXCEPT !.k = c.k + 1, !.iteration = 0, !.fold_index = 0]

\* lines 228-301 and 460-507: refit, predict, score, and store the results
RefitStore ==
    /\ pc = "refit"
    /\ script = "src"
    /\ LET name == matrices[cur.k].name
           raises == ResultsRaise(gs.ret, y[1], classes,
                                  cur.train_indices, cur.test_indices)
           header == FoldHeader(all_results, cur.iteration, cur.fold_index,
                                cur.train_indices, cur.test_indices, y[1],
                                args.with_indices)
           results == Results(gs.ret, y[1], classes,
                              cur.train_indices, cur.test_indices, entropy)
       IN IF raises # 0
          THEN /\ Fail("ValueError", raises)
               /\ gs' = IF raises = 233 THEN gs
                         ELSE [gs EXCEPT !.ret.clf.fitted = TRUE]
               /\ UNCHANGED << all_results, cur >>
          ELSE IF name \in DOMAIN header["kernels"]
          THEN /\ Fail("AssertionError", 503)
               /\ all_results' = WithFold(all_results, cur.iteration,
                                          cur.fold_index, header)
               /\ UNCHANGED << cur, gs >>
          ELSE /\ all_results' =
                    WithFold(all_results, cur.iteration, cur.fold_index,
                             Put(header, "kernels",
                                 Put(header["kernels"], name, results)))
               /\ cur' = Advance(cur)
               /\ gs' = [gs EXCEPT !.ret.clf.fitted = TRUE]
               /\ pc' = IF cur'.k > Len(matrices) THEN "finalize" ELSE "loop"
               /\ UNCHANGED err
    /\ UNCHANGED << script, args, gen, entropy, matrices, chk, n_graphs, y,
                    classes, twin, calls, run, first_report >>

\* lines 509-519: the measured time is whatever the clock says
Finalize ==
    /\ pc = "finalize"
    /\ \E runtime \in 1..MaxRuntime :
        all_results' = Put(Put(all_results, "runtime", runtime),
                           "max_iterations", args.max_iterations)
    /\ pc' = "done"
    /\ UNCHANGED << script, args, gen, entropy, matrices, chk, n_graphs, y,
                    classes, cur, gs, twin, calls, err, run, first_report >>

(***************************************************************************)
(* The loops of src/train.py                                               *)
(***************************************************************************)
\* lines 240-246
LegacyPrepare ==
    /\ pc = "check"
    /\ script = "root"
    /\ chk.i > Len(matrices)
    /\ cur' = [IdleCur EXCEPT !.k = 1]
    /\ pc' = "loop"
    /\ UNCHANGED << script, args, gen, entropy, matrices, chk, n_graphs, y,
                    classes, gs, twin, all_results, calls, err, run, first_report >>

\* lines 254-271, 152-164, 67-77: random_state is 42 in every iteration
LegacyBeginFold ==
    /\ pc = "loop"
    /\ script = "root"
    /\ IF SplitFails(NOuterFolds, y[1])
       THEN /\ Fail("ValueError", 261)
            /\ UNCHANGED << cur, gs, calls >>
       ELSE LET seed == LegacyOuterSeed(cur.k, cur.iteration)
                cv == Split(NOuterFolds, seed, y[1], gen)
                fold == cv[cur.fold_index + 1]
            IN /\ cur' = [cur EXCEPT !.train_indices = fold.train,
                                     !.test_indices = fold.test]
               /\ calls' = calls \cup
                    {[name |-> matrices[cur.k].name, iteration |-> cur.iteration,
                      fold_index |-> cur.fold_index, seed |-> seed,
                      train_indices |-> fold.train, test_indices |-> fold.test]}
               /\ gs' = Frame(SVC, fold.train, NInnerFolds, ParameterGrid,
                              matrices[cur.k].npz)
               /\ pc' = "search"
               /\ UNCHANGED err
    /\ UNCHANGED << script, args, gen, entropy, matrices, chk, n_graphs, y,
                    classes, twin, all_results, run, first_report >>

\* lines 166-185: the fit of clf, which is the object handed to
\* grid_search_cv, then clf.best_params_, which no SVC has
LegacyRefit ==
    /\ pc = "refit"
    /\ script = "root"
    /\ IF FitFails(Restrict(gs.ret.K, cur.train_indices), Take(y[1], cur.train_indices))
       THEN /\ Fail("ValueError", 169)
            /\ UNCHANGED gs
       ELSE /\ Fail("AttributeError", 181)
            /\ gs' = [gs EXCEPT !.clf.fitted = TRUE, !.ret.clf.fitted = TRUE]
    /\ UNCHANGED << script, args, gen, entropy, matrices, chk, n_graphs, y,
                    classes, cur, twin, all_results, calls, run, first_report >>

\* the script is run a second time on the same command line
Restart ==
    /\ pc = "done"
    /\ run = 1
    /\ run' = 2
    /\ first_report' = << all_results >>
    /\ entropy' \in 0..1
    /\ pc' = "check"
    /\ matrices' = Load(args.MATRIX)
    /\ chk' = [i |-> 1, j |-> 1]
    /\ n_graphs' = << >>
    /\ y' = << >>
    /\ classes' = << >>
    /\ cur' = IdleCur
    /\ gs' = None
    /\ all_results' = EmptyDict
    /\ calls' = {}
    /\ UNCHANGED << script, args, gen, twin, err >>

Next ==
    \/ CheckArray
    \/ Prepare
    \/ BeginFold
    \/ SearchStep
    \/ SearchReturn
    \/ RefitStore
    \/ Finalize
    \/ LegacyPrepare
    \/ LegacyBeginFold
    \/ LegacySearchStep
    \/ LegacySearchReturn
    \/ LegacyRefit

Spec == Init /\ [][Next]_vars

NextTwoRuns == Next \/ Restart

SpecTwoRuns == Init /\ [][NextTwoRuns]_vars

(***************************************************************************)
(* grid_search_cv called on its own: the collections, grids and outer      *)
(* train sets it is called with, and a second collection that differs from *)
(* the first in entries of rows or columns outside train_indices only      *)
(***************************************************************************)
Labels == Vec(NGraphs, "alt")

Collections ==
    { WL("a").npz,
      SP.npz,
      << VecItem(NGraphs, "alt"), MatItem("K", NGraphs, NGraphs, "anti", Labels) >>,
      << MatItem("a", NGraphs, NGraphs, "same", Labels),
         MatItem("b", NGraphs, NGraphs, "same", Labels),
         VecItem(NGraphs, "alt") >>,
      << MatItem("1", NGraphs, NGraphs, "wide", Labels), VecItem(NGraphs, "alt") >>,
      << VecItem(NGraphs, "alt") >> }

Grids ==
    { ParameterGrid,
      << >>,
      << [C |-> CExpRange, normalize |-> FALSE] >>,
      << [C |-> 0, normalize |-> FALSE], [C |-> 0, normalize |-> TRUE] >> }

\* the train sets of the outer splits
TrainSets ==
    { Split(NOuterFolds, BaseSeed + it, Labels, g)[f].train :
        it \in Range0(NIterations), f \in 1..NOuterFolds, g \in Generators }

Perturb(kernel_matrices, train_indices, how) ==
    [p \in 1..Len(kernel_matrices) |->
        IF kernel_matrices[p].key = "y" THEN kernel_matrices[p]
        ELSE [kernel_matrices[p] EXCEPT !.arr =
                [i \in DOMAIN @ |-> [j \in DOMAIN @[i] |->
                    IF i \in ArrSet(train_indices) /\ j \in ArrSet(train_indices)
                    THEN @[i][j]
                    ELSE IF how = "zero" THEN 0 ELSE 16 - @[i][j]]]]]

InitSel ==
    /\ script \in {"src", "root"}
    /\ args = Invocation(<< >>, FALSE)
    /\ gen \in Generators
    /\ entropy = 0
    /\ run = 1
    /\ first_report = << >>
    /\ matrices = << >>
    /\ chk = [i |-> 1, j |-> 1]
    /\ n_graphs = << >>
    /\ y = << >>
    /\ classes = << >>
    /\ cur = IdleCur
    /\ all_results = << >>
    /\ calls = {}
    /\ err = NoError
    /\ pc = "search"
    /\ \E km \in Collections, grid \in Grids, tr \in TrainSets,
          how \in {"zero", "flip"} :
            /\ gs = Frame(SVC, tr, NInnerFolds, grid, km)
            /\ twin = Frame(SVC, tr, NInnerFolds, grid, Perturb(km, tr, how))

NextSel ==
    \/ SearchStep
    \/ SearchReturn
    \/ LegacySearchStep
    \/ LegacySearchReturn

SpecSel == InitSel /\ [][NextSel]_vars

(***************************************************************************)
(* normalize called on its own, twice in a row.  The entries are multiples *)
(* of 1.0 and the positive diagonals 1.0 and 4.0, for which 1 / sqrt and   *)
(* the products are exact, in floating point as in fixed point: rounding,  *)
(* which moves other entries by a unit in the last place, is left out.     *)
(***************************************************************************)
DiagValues == {0 - 4, 0, 4, 16}

OffValues == {0 - 4, 0, 8}

SquareMatrices ==
    LET off == {ij \in Range0(NormSize) \X Range0(NormSize) : ij[1] # ij[2]}
    IN {[i \in Range0(NormSize) |-> [j \in Range0(NormSize) |->
            IF i = j THEN dg[i] ELSE o[<<i, j>>]]] :
        dg \in [Range0(NormSize) -> DiagValues], o \in [off -> OffValues]}

InitNorm ==
    /\ script \in {"src", "root"}
    /\ args = Invocation(<< >>, FALSE)
    /\ gen = [a |-> 0, b |-> 0]
    /\ entropy = 0
    /\ run = 1
    /\ first_report = << >>
    /\ matrices = << >>
    /\ chk = [i |-> 1, j |-> 1]
    /\ n_graphs = << >>
    /\ y = << >>
    /\ classes = << >>
    /\ cur = IdleCur
    /\ all_results = << >>
    /\ calls = {}
    /\ err = NoError
    /\ twin = None
    /\ pc = "normalize"
    /\ \E matrix \in SquareMatrices :
            gs = [tag |-> "normalize", matrix |-> matrix, once |-> None,
                  twice |-> None]

\* normalize(matrix) of the script
Normalized(matrix) ==
    IF script = "src" THEN normalize(matrix) ELSE legacy_normalize(matrix)

NormalizeOnce ==
    /\ pc = "normalize"
    /\ gs' = [gs EXCEPT !.once = Normalized(gs.matrix)]
    /\ pc' = "normalized"
    /\ UNCHANGED << script, args, gen, entropy, matrices, chk, n_graphs, y,
                    classes, cur, twin, all_results, calls, err, run,
                    first_report >>

NormalizeTwice ==
    /\ pc = "normalized"
    /\ gs' = [gs EXCEPT !.twice = Normalized(gs.once)]
    /\ pc' = "normalized twice"
    /\ UNCHANGED << script, args, gen, entropy, matrices, chk, n_graphs, y,
                    classes, cur, twin, all_results, calls, err, run,
                    first_report >>

NextNorm ==
    \/ NormalizeOnce
    \/ NormalizeTwice

SpecNorm == InitNorm /\ [][NextNorm]_vars

(***************************************************************************)
(* Properties of grid_search_cv                                            *)
(***************************************************************************)
\* the candidates of a call that are kernel matrices
Candidates(f) ==
    {c \in 1..NCandidates(f.param_grid, f.kernel_matrices) :
        CandItem(f.param_grid, f.kernel_matrices, c).key # "y"}

\* the accuracy of candidate c averaged over all inner folds
MeanOf(f, c) ==
    CandidateMean(CandParams(f.param_grid, f.kernel_matrices, c),
                  CandItem(f.param_grid, f.kernel_matrices, c).arr,
                  f.train_indices, f.n_folds,
                  TrainLabels(f.kernel_matrices, f.train_indices), gen)

\* the candidate that best_parameters names
Selected(f) ==
    CHOOSE c \in Candidates(f) :
        /\ CandParams(f.param_grid, f.kernel_matrices, c).C = f.best.best_parameters.C
        /\ CandParams(f.param_grid, f.kernel_matrices, c).normalize
                = f.best.best_parameters.normalize
        /\ CandItem(f.param_grid, f.kernel_matrices, c).key = f.best.best_parameters.K

NoneExceedsZero(f) ==
    \A c \in Candidates(f) : ~ FracGT(MeanOf(f, c), [num |-> 0, den |-> 1])

\* the two collections differ, and only outside train x train
TwinDiffers ==
    /\ twin # None
    /\ \E p \in 1..Len(gs.kernel_matrices) :
            gs.kernel_matrices[p].arr # twin.kernel_matrices[p].arr
    /\ \A p \in 1..Len(gs.kernel_matrices) :
        /\ gs.kernel_matrices[p].key = twin.kernel_matrices[p].key
        /\ gs.kernel_matrices[p].key = "y"
                => gs.kernel_matrices[p].arr = twin.kernel_matrices[p].arr
        /\ gs.kernel_matrices[p].key # "y"
                => Restrict(gs.kernel_matrices[p].arr, gs.train_indices)
                    = Restrict(twin.kernel_matrices[p].arr, gs.train_indices)

\* C1: two collections that agree on the train x train entries and on y but
\* differ in entries touching a test index lead grid_search_cv, in either
\* script, through the same best accuracies to the same selected matrix key,
\* normalize flag and C: the search of the one is at every step in the state
\* of the search of the other.
C1_LeakageInvariant ==
    (twin # None /\ pc \in {"search", "returned", "failed"}) =>
        /\ gs.c = twin.c
        /\ gs.best = twin.best
        /\ (gs.ret = None) = (twin.ret = None)
        /\ gs.ret # None => gs.ret.clf = twin.ret.clf
                            /\ gs.ret.parameters = twin.ret.parameters

C1_Witness ==
    /\ pc = "returned"
    /\ script = "src"
    /\ TwinDiffers
    /\ gs.ret.K # twin.ret.K
    /\ FracGT(gs.best.best_accuracy, [num |-> 1, den |-> 2])

\* C2: the pair that grid_search_cv ends with has the maximal accuracy
\* averaged over all inner folds among the candidates of grid and collection,
\* and the stored best accuracy is that mean.
C2_SelectsMaximalMean ==
    pc = "returned" =>
        /\ gs.best.best_accuracy = MeanOf(gs, Selected(gs))
        /\ \A c \in Candidates(gs) :
                ~ FracGT(MeanOf(gs, c), MeanOf(gs, Selected(gs)))

\* the same for src/src/train.py alone
C2_SelectsMaximalMeanSrc ==
    script = "src" => C2_SelectsMaximalMean

\* src/train.py ends with a pair whose mean over the inner folds is below
\* that of another candidate
C2_LegacyReturnsLesserMean ==
    /\ pc = "returned"
    /\ script = "root"
    /\ gs.best.best_accuracy = [num |-> 1, den |-> 1]
    /\ MeanOf(gs, Selected(gs)) = [num |-> 3, den |-> 4]
    /\ \E c \in Candidates(gs) : MeanOf(gs, c) = [num |-> 1, den |-> 1]

C2_Witness ==
    /\ pc = "returned"
    /\ script = "src"
    /\ \E c \in Candidates(gs) : FracGT(MeanOf(gs, Selected(gs)), MeanOf(gs, c))
    /\ \E c \in Candidates(gs) :
            FracGT(MeanOf(gs, c), [num |-> 0, den |-> 1]) /\ c < Selected(gs)

\* C3: among the candidates of src/src/train.py that reach the maximal mean,
\* the returned one is the first in visiting order (grid outermost, collection
\* innermost): no candidate visited before it has the same mean.
C3_FirstOfTheTied ==
    (pc = "returned" /\ script = "src") =>
        \A c \in Candidates(gs) :
            MeanOf(gs, c) = gs.best.best_accuracy => Selected(gs) <= c

C3_Witness ==
    /\ pc = "returned"
    /\ script = "src"
    /\ \E c \in Candidates(gs) :
        /\ c > Selected(gs)
        /\ MeanOf(gs, c) = gs.best.best_accuracy
        /\ CandParams(gs.param_grid, gs.kernel_matrices, c)
                = CandParams(gs.param_grid, gs.kernel_matrices, Selected(gs))
    /\ \E c \in Candidates(gs) :
        /\ MeanOf(gs, c) = gs.best.best_accuracy
        /\ CandParams(gs.param_grid, gs.kernel_matrices, c)
                # CandParams(gs.param_grid, gs.kernel_matrices, Selected(gs))

\* C4: when no candidate's mean accuracy exceeds 0, grid_search_cv of
\* src/src/train.py returns nothing: after the last candidate it raises
\* KeyError, and best_clf and best_parameters are still None and {}.
C4_NothingSelectedIsAnError ==
    (script = "src" /\ pc \in {"search", "returned", "failed"} /\ NoneExceedsZero(gs)) =>
        /\ pc # "returned"
        /\ gs.ret = None
        /\ gs.best.best_clf = None
        /\ gs.best.best_parameters = EmptyDict
        /\ pc = "failed" => err.type = "KeyError"

\* every candidate has been scored, and every mean is exactly 0
C4_Witness ==
    /\ pc = "failed"
    /\ err.type = "KeyError"
    /\ script = "src"
    /\ Candidates(gs) # {}
    /\ \A c \in Candidates(gs) : MeanOf(gs, c) = [num |-> 0, den |-> 1]

\* the same outcome for the empty grid and for the collection of 'y' alone
C4_WitnessEmptyGrid ==
    pc = "failed" /\ err.type = "KeyError" /\ script = "src"
        /\ gs.param_grid = << >> /\ Len(gs.kernel_matrices) > 1

C4_WitnessOnlyLabels ==
    pc = "failed" /\ err.type = "KeyError" /\ script = "src"
        /\ gs.param_grid # << >> /\ Len(gs.kernel_matrices) = 1

(***************************************************************************)
(* Properties of the driver                                                *)
(***************************************************************************)
Iterations == IF "iterations" \in DOMAIN all_results
              THEN all_results["iterations"] ELSE EmptyDict

Stored(iteration, fold_index) ==
    /\ iteration \in DOMAIN Iterations
    /\ fold_index \in DOMAIN Iterations[iteration].folds

FoldOf(iteration, fold_index) == Iterations[iteration].folds[fold_index]

KernelNames == {matrices[k].name : k \in 1..Len(matrices)}

\* every fold of every iteration of every kernel has been run
AllCalled ==
    Cardinality(calls) = Len(matrices) * NIterations * NOuterFolds

\* C5: in every call of train_and_test the train and test indices are
\* disjoint, free of duplicates and together exactly 0..N-1, and within one
\* iteration of one kernel the test sets of different folds are disjoint and
\* cover 0..N-1 once all folds have run.
C5_FoldPartition ==
    \A c \in calls :
        LET tr == ArrSet(c.train_indices)
            te == ArrSet(c.test_indices)
            same == {d \in calls : d.name = c.name /\ d.iteration = c.iteration}
        IN /\ tr \cap te = {}
           /\ tr \cup te = Range0(n_graphs[1])
           /\ Cardinality(tr) = Len0(c.train_indices)
           /\ Cardinality(te) = Len0(c.test_indices)
           /\ \A d \in same : d.fold_index # c.fold_index
                    => te \cap ArrSet(d.test_indices) = {}
           /\ Cardinality(same) = NOuterFolds
                    => UNION {ArrSet(d.test_indices) : d \in same} = Range0(n_graphs[1])

C5_Witness ==
    /\ pc = "done"
    /\ Len(matrices) = 2
    /\ AllCalled
    /\ \A c \in calls : c.train_indices # << >> /\ c.test_indices # << >>

\* C6: for every iteration and fold index every kernel is called with the
\* same train and test indices, and the y_test and the indices stored for a
\* fold are those of every call for that fold, so a later kernel's write
\* does not change them.
C6_SameSplitsForEveryKernel ==
    \A c \in calls :
        /\ \A d \in calls :
                (d.iteration = c.iteration /\ d.fold_index = c.fold_index)
                    => /\ d.train_indices = c.train_indices
                       /\ d.test_indices = c.test_indices
        /\ Stored(c.iteration, c.fold_index) =>
                LET e == FoldOf(c.iteration, c.fold_index)
                IN /\ e["y_test"] = Take(y[1], c.test_indices)
                   /\ args.with_indices
                        => /\ e["train_indices"] = c.train_indices
                           /\ e["test_indices"] = c.test_indices

\* two kernels have written into a fold of the second iteration, whose
\* split differs from that of the first iteration
C6_Witness ==
    /\ script = "src"
    /\ args.with_indices
    /\ Stored(1, 0)
    /\ Cardinality(DOMAIN FoldOf(1, 0)["kernels"]) = 2
    /\ FoldOf(1, 0)["test_indices"] # FoldOf(0, 0)["test_indices"]

\* C7: the assertion of line 503 never fails, a result stored for an
\* (iteration, fold, kernel) stays as it was written, and at the end of the
\* run every iteration, fold and kernel name has a result.
C7_WrittenExactlyOnce ==
    /\ [](/\ err.line # 503
          /\ pc \in {"finalize", "done"} =>
                \A it \in Range0(NIterations), f \in Range0(NOuterFolds) :
                    /\ Stored(it, f)
                    /\ DOMAIN FoldOf(it, f)["kernels"] = KernelNames)
    /\ [][\A it \in DOMAIN Iterations :
            \A f \in DOMAIN Iterations[it].folds :
                \A name \in DOMAIN FoldOf(it, f)["kernels"] :
                    /\ it \in DOMAIN all_results'["iterations"]
                    /\ f \in DOMAIN all_results'["iterations"][it].folds
                    /\ name \in DOMAIN all_results'["iterations"][it].folds[f]["kernels"]
                    /\ all_results'["iterations"][it].folds[f]["kernels"][name]
                            = FoldOf(it, f)["kernels"][name]]_vars

\* two files with the same base name: one kernel, every fold written once
C7_Witness ==
    /\ pc = "done"
    /\ Len(args.MATRIX) = 2
    /\ Len(matrices) = 1
    /\ \A it \in Range0(NIterations), f \in Range0(NOuterFolds) :
            Stored(it, f) /\ DOMAIN FoldOf(it, f)["kernels"] = KernelNames

SizeMismatch ==
    LET arrays == UNION {{matrices[i].npz[j] : j \in 1..Len(matrices[i].npz)} :
                            i \in 1..Len(matrices)}
    IN \/ \E a \in arrays : a.key # "y" /\ a.shape[1] # a.shape[2]
       \/ \E a, b \in arrays : a.shape[1] # b.shape[1]

\* C8: when two arrays of the loaded collections disagree in size, the run
\* never leaves the input check: it ends there in an AssertionError, and no
\* split is made and no grid search or fit is started.
C8_SizeMismatchAborts ==
    SizeMismatch =>
        /\ pc \in {"check", "failed"}
        /\ pc = "check" => chk.i <= Len(matrices)
        /\ pc = "failed" => err.type = "AssertionError" /\ err.line \in {387, 392, 401}
        /\ calls = {}
        /\ gs = None
        /\ cur = IdleCur

\* one collection with a 5x5 and a 6x6 matrix
C8_Witness ==
    /\ pc = "failed"
    /\ err.line = 401
    /\ Len(matrices) = 1
    /\ \E a, b \in {matrices[1].npz[j] : j \in 1..Len(matrices[1].npz)} :
            a.key # "y" /\ b.key # "y" /\ a.shape[1] # b.shape[1]

LabelsOf(npz) == Lookup(npz, "y")

LabelsDisagree ==
    \E i, j \in 1..Len(matrices) : LabelsOf(matrices[i].npz) # LabelsOf(matrices[j].npz)

\* C9: collections whose label vectors differ, be it only in their entries,
\* are rejected by the input check, so that no fold is evaluated for them and
\* the labels grid_search_cv reads from its collection are the labels of the
\* driver.
C9_LabelMismatchRejected ==
    /\ LabelsDisagree => (pc \in {"check", "failed"} /\ calls = {})
    /\ pc = "search" => LabelsOf(gs.kernel_matrices) = y[1]

\* the run has ended normally although two collections differ in y
C9_Accepted ==
    pc = "done" /\ LabelsDisagree /\ ~ SizeMismatch

\* C10: a second run on the same command line ends with the report of the
\* first run, field for field.
C10_ReportsIdentical ==
    (run = 2 /\ pc = "done") => all_results = first_report[1]

\* the reports without the field runtime
C10_IdenticalButRuntime ==
    (run = 2 /\ pc = "done") =>
        all_results["iterations"] = first_report[1]["iterations"]

\* a result without the fields computed from predict_proba
Seeded(results) ==
    [best_model |-> results.best_model, accuracy |-> results.accuracy,
     precision |-> results.precision, recall |-> results.recall,
     y_pred |-> results.y_pred]

\* what the seeds fix: folds, labels, selected models, predictions
C10_SeededPartIdentical ==
    (run = 2 /\ pc = "done") =>
        /\ all_results["name"] = first_report[1]["name"]
        /\ all_results["max_iterations"] = first_report[1]["max_iterations"]
        /\ \A it \in Range0(NIterations), f \in Range0(NOuterFolds) :
            LET a == FoldOf(it, f)
                b == first_report[1]["iterations"][it].folds[f]
            IN /\ a["y_test"] = b["y_test"]
               /\ DOMAIN a = DOMAIN b
               /\ DOMAIN a["kernels"] = DOMAIN b["kernels"]
               /\ \A name \in DOMAIN a["kernels"] :
                    Seeded(a["kernels"][name]) = Seeded(b["kernels"][name])

\* both runs have ended, and their reports differ in the runtime alone
C10_OnlyRuntimeDiffers ==
    /\ run = 2
    /\ pc = "done"
    /\ all_results["runtime"] # first_report[1]["runtime"]
    /\ all_results["iterations"] = first_report[1]["iterations"]

\* both runs have ended, and a y_score of the second is not that of the first
C10_ScoresDiffer ==
    /\ run = 2
    /\ pc = "done"
    /\ \E name \in KernelNames :
            FoldOf(0, 0)["kernels"][name].y_score
                # first_report[1]["iterations"][0].folds[0]["kernels"][name].y_score

(***************************************************************************)
(* What grid_search_cv hands back                                          *)
(***************************************************************************)
\* the matrix the winning candidate was scored on (lines 113-117)
ScoredMatrix(f) ==
    LET K0 == Restrict(Lookup(f.kernel_matrices, f.best.best_parameters.K),
                       f.train_indices)
    IN IF f.best.best_parameters.normalize THEN normalize(K0) ELSE K0

\* C11: the matrix grid_search_cv returns is the winning matrix restricted
\* to train_indices and normalized iff the winning normalize flag is true,
\* i.e. the matrix the winning candidate was scored on.
C11_ReturnedMatrixIsScoredMatrix ==
    pc = "returned" => gs.ret.K = ScoredMatrix(gs)

\* src/src/train.py returns the whole matrix; its train block is the matrix
\* the winner was scored on
C11_TrainBlockOfReturnedSrc ==
    (pc = "returned" /\ script = "src") =>
        /\ Len0(gs.ret.K) = NGraphs
        /\ Restrict(gs.ret.K, gs.train_indices) = ScoredMatrix(gs)

\* src/train.py returns the matrix as loaded although normalize has won
C11_LegacyReturnsRaw ==
    /\ pc = "returned"
    /\ script = "root"
    /\ gs.best.best_parameters.normalize
    /\ Restrict(gs.ret.K, gs.train_indices) # ScoredMatrix(gs)

\* src/src/train.py returns a matrix over all graphs, normalize having won
C11_SrcReturnsWhole ==
    /\ pc = "returned"
    /\ script = "src"
    /\ gs.best.best_parameters.normalize
    /\ Len0(gs.ret.K) = NGraphs
    /\ Len0(ScoredMatrix(gs)) < NGraphs

\* C12: the classifier grid_search_cv returns is an unfitted clone with the
\* C of the winning configuration, the classifier handed in stays unfitted
\* with its own parameters, and the classifier train_and_test fits is the
\* returned clone.
C12_ReturnedClassifierIsFreshClone ==
    (gs # None /\ twin = None) =>
        /\ gs.clf = SVC
        /\ gs.ret # None =>
            /\ gs.ret.clf.obj = "clone"
            /\ gs.ret.clf.C = gs.best.best_parameters.C
            /\ pc = "refit" => ~ gs.ret.clf.fitted
            /\ pc \in {"loop", "finalize", "done"} => gs.ret.clf.fitted

\* the same for src/src/train.py alone
C12_ReturnedClassifierIsFreshCloneSrc ==
    script = "src" => C12_ReturnedClassifierIsFreshClone

\* src/train.py has fitted the classifier that was handed to grid_search_cv
C12_LegacyFitsTemplate ==
    /\ script = "root"
    /\ pc = "failed"
    /\ err.line = 181
    /\ gs.ret.clf.obj = "template"
    /\ gs.clf.fitted
    /\ gs.best.best_clf.obj = "clone"
    /\ gs.best.best_clf.C # gs.ret.clf.C

\* src/src/train.py has fitted the clone, with a C that is not the default
C12_SrcFitsClone ==
    /\ script = "src"
    /\ pc = "loop"
    /\ gs # None
    /\ gs.ret.clf.obj = "clone"
    /\ gs.ret.clf.fitted
    /\ gs.ret.clf.C # SVC.C

(***************************************************************************)
(* The refit of train_and_test                                             *)
(***************************************************************************)
\* the labels with those of the test samples replaced
OtherTestLabels(yv, test_indices) ==
    [i \in DOMAIN yv |-> IF i \in ArrSet(test_indices) THEN yv[i] + 1 ELSE yv[i]]

\* the matrix with the columns of the test samples replaced: the test x test
\* block and the train rows' entries against test samples
OtherTestColumns(K, test_indices) ==
    [i \in DOMAIN K |-> [j \in DOMAIN K[i] |->
        IF j \in ArrSet(test_indices) THEN 0 ELSE K[i][j]]]

\* the matrix with the row of sample q replaced
OtherRow(K, q) ==
    [i \in DOMAIN K |-> [j \in DOMAIN K[i] |-> IF i = q THEN 0 ELSE K[i][j]]]

RefitPending ==
    /\ pc = "refit"
    /\ ~ FitFails(Restrict(gs.ret.K, cur.train_indices),
                  Take(y[1], cur.train_indices))

RefitPredictions ==
    Predict(gs.ret.clf, gs.ret.K, y[1], cur.train_indices, cur.test_indices)

Guarded(matrix) == {i \in DOMAIN matrix : matrix[i][i] <= 0}

Finite(matrix) ==
    \A i \in DOMAIN matrix : \A j \in DOMAIN matrix[i] : matrix[i][j] # NaNEntry

ZeroGuarded(matrix, out) ==
    /\ Finite(out)
    /\ \A i \in Guarded(matrix) : \A j \in DOMAIN matrix :
            out[i][j] = 0 /\ out[j][i] = 0

\* C14: after normalize, of either script, every cell in the row or the
\* column of an index whose diagonal entry is zero or negative is zero, and
\* no cell is NaN or infinite.
C14_ZeroGuard ==
    pc = "normalized" => ZeroGuarded(gs.matrix, gs.once)

\* the same for normalize of src/src/train.py alone
C14_ZeroGuardSrc ==
    (pc = "normalized" /\ script = "src") => ZeroGuarded(gs.matrix, gs.once)

\* src/train.py: a matrix with a zero or negative diagonal entry comes back
\* with cells that are not finite
C14_LegacyNotFinite ==
    /\ pc = "normalized"
    /\ script = "root"
    /\ Guarded(gs.matrix) # {}
    /\ ~ Finite(gs.once)

\* src/src/train.py: an all-zero matrix and a negative diagonal are guarded
C14_SrcGuards ==
    /\ pc = "normalized"
    /\ script = "src"
    /\ Guarded(gs.matrix) # {}
    /\ Guarded(gs.matrix) # DOMAIN gs.matrix
    /\ \E i \in DOMAIN gs.matrix : gs.matrix[i][i] < 0
    /\ \E i \in Guarded(gs.matrix) : \E j \in DOMAIN gs.matrix :
            gs.matrix[i][j] # 0 /\ gs.once[i][j] = 0

\* C15: normalize of src/src/train.py returns a matrix whose diagonal
\* entries are all 1 unchanged, and normalizing the result of normalize
\* again returns that result, guarded rows and columns included.
C15_NormalizeIdempotent ==
    script = "src" =>
        /\ (pc = "normalized" /\ \A i \in DOMAIN gs.matrix : gs.matrix[i][i] = 4)
                => gs.once = gs.matrix
        /\ pc = "normalized twice" => gs.twice = gs.once

\* a second normalization of a matrix that the first one changed, with a
\* guarded index and a scaled one
C15_Witness ==
    /\ pc = "normalized twice"
    /\ script = "src"
    /\ gs.once # gs.matrix
    /\ Guarded(gs.matrix) # {}
    /\ \E i \in DOMAIN gs.matrix \ Guarded(gs.matrix) :
            /\ gs.matrix[i][i] # 4
            /\ gs.once[i][i] = 4

\* a matrix with diagonal 1 and entries off the diagonal, normalized
C15_WitnessUnitDiagonal ==
    /\ pc = "normalized"
    /\ script = "src"
    /\ \A i \in DOMAIN gs.matrix : gs.matrix[i][i] = 4
    /\ \E i, j \in DOMAIN gs.matrix : i # j /\ gs.matrix[i][j] # 0

(***************************************************************************)
(* Properties of the score-based measures                                  *)
(***************************************************************************)
\* the results stored for a kernel in iteration it, fold f
StoredResults ==
    {[y_test |-> FoldOf(it, f)["y_test"], results |-> FoldOf(it, f)["kernels"][name]] :
        <<it, f, name>> \in
        {t \in Range0(NIterations) \X Range0(NOuterFolds) \X KernelNames :
            /\ Stored(t[1], t[2])
            /\ t[3] \in DOMAIN FoldOf(t[1], t[2])["kernels"]}}

\* the classes with a column in y_score whose one-vs-rest labels on the test
\* fold hold both a member and a non-member
Computable(y_test, y_score) ==
    {i \in Range0(Len0(classes)) :
        /\ i \in DOMAIN y_score[0]
        /\ classes[i] \in ArrSet(y_test)
        /\ ArrSet(y_test) # {classes[i]}}

MeanOver(S, v(_)) ==
    IF S = {} THEN NaN
    ELSE Mean([k \in 1..Cardinality(S) |-> v(SortedArr(S)[k - 1])])

C17_CollectionsReadOnly ==
    /\ matrices = Load(args.MATRIX)
    /\ gs # None =>
            /\ \E k \in 1..Len(args.MATRIX) :
                    gs.kernel_matrices = Load(args.MATRIX)[k].npz
            /\ pc \in {"search", "refit"} =>
                    gs.kernel_matrices = Load(args.MATRIX)[cur.k].npz

\* a finished run over two kernels, one with a matrix that normalize changes
C17_Witness ==
    /\ pc = "done"
    /\ script = "src"
    /\ Len(matrices) = 2
    /\ AllCalled
    /\ gs.ret # None
    /\ \E k \in 1..Len(matrices) : \E p \in 1..Len(matrices[k].npz) :
            /\ matrices[k].npz[p].key # "y"
            /\ normalize(matrices[k].npz[p].arr) # matrices[k].npz[p].arr

(***************************************************************************)
(* Properties of the inner folds                                           *)
(***************************************************************************)
\* the inner folds of the call in progress
InnerFolds ==
    Split(gs.n_folds, InnerSeed,
          TrainLabels(gs.kernel_matrices, gs.train_indices), gen)

InnerCallInProgress ==
    /\ pc = "search"
    /\ script = "src"
    /\ twin = None
    /\ ~ SplitFails(gs.n_folds, TrainLabels(gs.kernel_matrices, gs.train_indices))

LastItem ==
    IF script = "src" THEN CandItem(gs.param_grid, gs.kernel_matrices, gs.c - 1)
    ELSE LegacyItem(gs.param_grid, gs.kernel_matrices, gs.c - 1)

LastParameters ==
    IF script = "src" THEN CandParams(gs.param_grid, gs.kernel_matrices, gs.c - 1)
    ELSE gs.param_grid[LegacyParamIndex(gs.param_grid, gs.c - 1)]

ScoredCandidate ==
    /\ pc = "search"
    /\ gs.c > 1
    /\ LastItem.key # "y"

\* what the claim asks of the matrix of the last pass
ExpectedK ==
    LET K0 == Restrict(LastItem.arr, gs.train_indices)
    IN IF LastParameters.normalize THEN Normalized(K0) ELSE K0

\* C19: in either script, the matrix that was handed to the classifier for
\* a candidate is the normalized restriction to train_indices if the
\* candidate's normalize flag is set and the restriction as loaded if it is
\* not, whatever was evaluated before.
C19_NoCarryOver ==
    ScoredCandidate => gs.K = ExpectedK

\* the same for src/src/train.py alone
C19_NoCarryOverSrc ==
    (ScoredCandidate /\ script = "src") => gs.K = ExpectedK

\* src/train.py: a candidate without normalize is fitted on the matrix that
\* the candidate before it normalized
C19_LegacyCarriesOver ==
    /\ ScoredCandidate
    /\ script = "root"
    /\ ~ LastParameters.normalize
    /\ gs.K # ExpectedK
    /\ gs.K = legacy_normalize(ExpectedK)

\* src/src/train.py: a candidate without normalize after one with it, on a
\* matrix that normalize changes
C19_SrcStartsAfresh ==
    /\ ScoredCandidate
    /\ script = "src"
    /\ ~ LastParameters.normalize
    /\ gs.c > Len(gs.kernel_matrices) + 1
    /\ CandParams(gs.param_grid, gs.kernel_matrices,
                  gs.c - 1 - Len(gs.kernel_matrices)).normalize
    /\ normalize(gs.K) # gs.K

(***************************************************************************)
(* Properties of the seeds of the outer splitter                           *)
(***************************************************************************)
\* random_state of the splitter that the script's loops use for kernel k in
\* iteration it
SplitterSeed(k, it) ==
    IF script = "src" THEN OuterSeed(k, it) ELSE LegacyOuterSeed(k, it)

SeededPerIteration ==
    /\ \A c \in calls :
        /\ c.seed = BaseSeed + c.iteration
        /\ Split(NOuterFolds, BaseSeed + c.iteration, y[1], gen)[c.fold_index + 1]
                = [train |-> c.train_indices, test |-> c.test_indices]
    /\ calls # {} =>
        \A k \in 1..Len(matrices) : \A it \in Range0(NIterations) :
            /\ SplitterSeed(k, it) = BaseSeed + it
            /\ \A other \in Range0(NIterations) \ {it} :
                    SplitterSeed(k, other) # SplitterSeed(k, it)

C20_SeedPerIterationSrc ==
    script = "src" => SeededPerIteration

C20_SrcOtherFolds ==
    /\ script = "src"
    /\ pc = "done"
    /\ AllCalled
    /\ Len(matrices) = 2
    /\ \E c, d \in calls :
        /\ c.name = d.name /\ c.fold_index = d.fold_index
        /\ c.iteration = 0 /\ d.iteration = 1
        /\ d.seed = c.seed + 1
        /\ c.test_indices # d.test_indices

(***************************************************************************)
(* Properties of the means, metric by metric                               *)
(***************************************************************************)
\* average_precision_score is a number when y_true has a positive sample
AuprcDefined(y_true) == \E p \in DOMAIN y_true : y_true[p] = 1

\* the classes with a column in y_score whose average precision is a number
AuprcComputable(y_test, y_score) ==
    {i \in Range0(Len0(classes)) :
        /\ i \in DOMAIN y_score[0]
        /\ AuprcDefined(Binarized(y_test, classes, i))}

\* C21: with more than two classes, the auprc stored for a fold is the mean
\* over every class whose average precision can be computed on the test
\* fold, also over a class whose auroc cannot; and the auroc stored is the
\* mean over every class whose auroc can be computed.
C21_ExcludedPerMetric ==
    (script = "src" /\ Len0(classes) > 2) =>
        \A s \in StoredResults :
            LET auroc(i) == Auroc(Binarized(s.y_test, classes, i),
                                  Column(s.results.y_score, i))
                auprc(i) == Auprc(Binarized(s.y_test, classes, i),
                                  Column(s.results.y_score, i))
            IN /\ s.results.auroc =
                    MeanOver(Computable(s.y_test, s.results.y_score), auroc)
               /\ s.results.auprc =
                    MeanOver(AuprcComputable(s.y_test, s.results.y_score), auprc)

\* a test fold of one class only: the auroc of that class raises, its
\* average precision is 1, and the auprc stored is NaN
C21_AuprcDroppedWithAuroc ==
    /\ script = "src"
    /\ Len0(classes) = 3
    /\ \E s \in StoredResults : \E i \in DOMAIN s.results.y_score[0] :
        /\ AurocRaises(Binarized(s.y_test, classes, i))
        /\ Auprc(Binarized(s.y_test, classes, i), Column(s.results.y_score, i))
                = [num |-> 1, den |-> 1]
        /\ IsNaN(s.results.auprc)

(***************************************************************************)
(* Normalization and restriction                                           *)
(***************************************************************************)
\* the matrices of the collection of the call in progress
MatricesOf(kernel_matrices) ==
    {kernel_matrices[p].arr : p \in {q \in 1..Len(kernel_matrices) :
                                        kernel_matrices[q].key # "y"}}

\* C22: when train_and_test of src/src/train.py is about to refit, for
\* every matrix of the collection normalizing the block at the train
\* indices, or at the test indices, gives the block of the normalized
\* matrix at these indices, cell by cell, guarded cells included; and the
\* train block of the matrix that grid_search_cv returned is the matrix on
\* which the winning candidate was scored.
C22_NormalizeCommutesWithRestrict ==
    (pc = "refit" /\ script = "src") =>
        /\ \A K \in MatricesOf(gs.kernel_matrices) :
            \A I \in {cur.train_indices, cur.test_indices} :
                normalize(Restrict(K, I)) = Restrict(normalize(K), I)
        /\ Restrict(gs.ret.K, cur.train_indices) = ScoredMatrix(gs)

\* a refit after a candidate with normalize won, on a matrix that
\* normalize changes
C22_Witness ==
    /\ pc = "refit"
    /\ script = "src"
    /\ gs.best.best_parameters.normalize
    /\ gs.ret.K # Lookup(gs.kernel_matrices, gs.best.best_parameters.K)
    /\ Len0(cur.train_indices) < NGraphs

\* a refit with a matrix in the collection that has guarded and scaled
\* indices among the train indices
C22_WitnessGuarded ==
    /\ pc = "refit"
    /\ script = "src"
    /\ \E K \in MatricesOf(gs.kernel_matrices) :
        /\ \E p \in DOMAIN cur.train_indices :
                K[cur.train_indices[p]][cur.train_indices[p]] = 0
        /\ \E p \in DOMAIN cur.train_indices :
                K[cur.train_indices[p]][cur.train_indices[p]] > 4
        /\ normalize(Restrict(K, cur.train_indices)) # Restrict(K, cur.train_indices)

(***************************************************************************)
(* Properties of the score columns                                         *)
(***************************************************************************)
\* the folds stored, each with the call of train_and_test that filled it
StoredCalls ==
    {c \in calls :
        /\ Stored(c.iteration, c.fold_index)
        /\ c.name \in DOMAIN FoldOf(c.iteration, c.fold_index)["kernels"]}

\* clf.classes_ of the refit of call c: the sorted labels of its train fold
FittedClasses(c) == SortedArr(ArrSet(Take(y[1], c.train_indices)))

\* the columns that contribute to the means of the fold of call c
Contributing(c) ==
    Computable(FoldOf(c.iteration, c.fold_index)["y_test"],
               FoldOf(c.iteration, c.fold_index)["kernels"][c.name].y_score)

\* C23: with more than two classes, for every fold stored and every column
\* i that contributes to its means, column i of y_score, which belongs to
\* the i-th class the classifier was fitted on, belongs to the i-th class of
\* the data set, to which column i of the binarized labels belongs.
C23_ColumnsAligned ==
    (script = "src" /\ Len0(classes) > 2) =>
        \A c \in StoredCalls :
            /\ DOMAIN FoldOf(c.iteration, c.fold_index)["kernels"][c.name].y_score[0]
                    = DOMAIN FittedClasses(c)
            /\ \A i \in Contributing(c) : FittedClasses(c)[i] = classes[i]

\* the graph of the second class is in the test fold: the classifier is
\* fitted on the first and the third class, and its second column, the
\* scores of the third class, is scored against the labels of the second
C23_SecondColumnOfThirdClass ==
    /\ script = "src"
    /\ classes = SortedArr({0, 1, 2})
    /\ \E c \in StoredCalls :
        /\ FittedClasses(c) = SortedArr({0, 2})
        /\ 1 \in Contributing(c)
        /\ ~ IsNaN(FoldOf(c.iteration, c.fold_index)["kernels"][c.name].auroc)

\* the graph of the third class is in the test fold: the two columns are
\* those of the first and the second class
C23_LastClassAbsent ==
    /\ script = "src"
    /\ classes = SortedArr({0, 1, 2})
    /\ \E c \in StoredCalls :
        /\ FittedClasses(c) = SortedArr({0, 1})
        /\ Contributing(c) # {}
        /\ \A i \in Contributing(c) : FittedClasses(c)[i] = classes[i]
====
